---- MODULE Spec2Model ----
(***************************************************************************)
(* Model of the two versions of script.js of the PLTR dashboard page:      *)
(*   - src/script.js        (STATE, fetchStockData with its fallback chain,*)
(*                           click-driven range buttons)                   *)
(*   - src/unnamed/part_000 (the patch version: loadData / parseCSV,       *)
(*                           rangeSelect and slider)                       *)
(*                                                                         *)
(* Numbers.  Dates are whole days counted from 2020-01-01 (local time, a   *)
(* zone without a clock change inside the modelled period).  Prices of the *)
(* synthetic generator are fixed point: 1/10000 dollar inside a bar's      *)
(* computation and cents after toFixed(2).  Volumes of the generator are   *)
(* counted in units of 10000 shares.  pseudoRandom() is the 16 leading     *)
(* bits of (seed - 1), a fraction of 65536.                                *)
(***************************************************************************)
EXTENDS Integers, Sequences, FiniteSets, TLC

\* ------------------------------------------------------------------------
\* JavaScript values that are not ordinary numbers
\* ------------------------------------------------------------------------
\* NaN (parseFloat / Number of a non-numeric text)
NaN == -1000000001
\* a JSON string where a number is expected (it has no toFixed)
Str == -1000000002
\* JSON null / undefined
Nul == -1000000003

IsNumber(x) == x # Str /\ x # Nul
IsFiniteNumber(x) == x # NaN /\ x # Str /\ x # Nul

Max2(a, b) == IF a >= b THEN a ELSE b
Min2(a, b) == IF a <= b THEN a ELSE b

\* ------------------------------------------------------------------------
\* Calendar: new Date(y, m, d) with a 0-based month that may overflow
\* ------------------------------------------------------------------------
IsLeap(y) == (y % 4 = 0 /\ y % 100 # 0) \/ y % 400 = 0

DaysInYear(y) == IF IsLeap(y) THEN 366 ELSE 365

\* days of the months before month m (0-based) in year y
DaysBeforeMonth(y, m) ==
  LET cum == <<0, 31, 59, 90, 120, 151, 181, 212, 243, 273, 304, 334>>
  IN cum[m + 1] + (IF m >= 2 /\ IsLeap(y) THEN 1 ELSE 0)

RECURSIVE DaysBeforeYear(_)
DaysBeforeYear(y) == IF y <= 2020 THEN 0 ELSE DaysBeforeYear(y - 1) + DaysInYear(y - 1)

\* new Date(y, m, d): month 12 is January of the next year
RECURSIVE NewDate(_, _, _)
NewDate(y, m, d) ==
  IF m >= 12 THEN NewDate(y + 1, m - 12, d)
  ELSE DaysBeforeYear(y) + DaysBeforeMonth(y, m) + (d - 1)

\* Date.prototype.getDay: 0 is Sunday; 2020-01-01 was a Wednesday
GetDay(date) == (date + 3) % 7

\* ------------------------------------------------------------------------
\* fetchFallbackData: the synthetic generator
\* ------------------------------------------------------------------------
\* <<YYYY, M, D, close in cents, average daily volume in 10000 shares>>
anchors == <<
  <<2020, 9, 30, 950, 8000>>,
  <<2020, 10, 15, 1020, 6500>>,
  <<2020, 10, 30, 1150, 5500>>,
  <<2020, 11, 15, 1700, 10000>>,
  <<2020, 11, 27, 2900, 15000>>,
  <<2020, 12, 15, 2550, 8000>>,
  <<2020, 12, 31, 2355, 6000>>,
  <<2021, 0, 15, 2600, 9000>>,
  <<2021, 0, 27, 3350, 18000>>,
  <<2021, 1, 10, 2900, 12000>>,
  <<2021, 1, 28, 2520, 8000>>,
  <<2021, 2, 15, 2300, 7000>>,
  <<2021, 3, 15, 2250, 5000>>,
  <<2021, 4, 15, 2000, 4500>>,
  <<2021, 5, 15, 2550, 5500>>,
  <<2021, 6, 15, 2200, 4000>>,
  <<2021, 7, 15, 2380, 3800>>,
  <<2021, 8, 15, 2800, 4200>>,
  <<2021, 9, 15, 2450, 4000>>,
  <<2021, 10, 15, 2350, 6000>>,
  <<2021, 11, 31, 1800, 5500>>,
  <<2022, 0, 15, 1450, 5000>>,
  <<2022, 1, 15, 1150, 5500>>,
  <<2022, 2, 15, 1250, 4500>>,
  <<2022, 3, 15, 1100, 4000>>,
  <<2022, 4, 15, 800, 6500>>,
  <<2022, 5, 15, 900, 5000>>,
  <<2022, 6, 15, 950, 4200>>,
  <<2022, 7, 15, 860, 4000>>,
  <<2022, 8, 15, 750, 4500>>,
  <<2022, 9, 15, 800, 4000>>,
  <<2022, 10, 15, 780, 3800>>,
  <<2022, 11, 31, 650, 4200>>,
  <<2023, 0, 15, 720, 4800>>,
  <<2023, 1, 15, 880, 9000>>,
  <<2023, 2, 15, 950, 5500>>,
  <<2023, 3, 15, 1020, 5000>>,
  <<2023, 4, 15, 1350, 8000>>,
  <<2023, 5, 15, 1520, 5500>>,
  <<2023, 6, 15, 1750, 5000>>,
  <<2023, 7, 15, 1580, 6000>>,
  <<2023, 8, 15, 1600, 4500>>,
  <<2023, 9, 15, 1650, 4200>>,
  <<2023, 10, 15, 1900, 5500>>,
  <<2023, 11, 31, 1720, 4000>>,
  <<2024, 0, 15, 1780, 4200>>,
  <<2024, 1, 15, 2450, 9500>>,
  <<2024, 2, 15, 2300, 5000>>,
  <<2024, 3, 15, 2250, 4500>>,
  <<2024, 4, 15, 2280, 6000>>,
  <<2024, 5, 15, 2500, 4800>>,
  <<2024, 6, 15, 2700, 4500>>,
  <<2024, 7, 15, 3000, 5000>>,
  <<2024, 8, 15, 3600, 6500>>,
  <<2024, 9, 15, 4200, 7000>>,
  <<2024, 10, 15, 5500, 12000>>,
  <<2024, 11, 15, 6800, 8000>>,
  <<2024, 11, 31, 7500, 6000>>,
  <<2025, 0, 15, 7200, 5500>>,
  <<2025, 1, 5, 8200, 9000>>
>>

\* let seed = 42
SeedStart == 42
\* the multiplier and the modulus of pseudoRandom
LcgMul == 16807
LcgMod == 2147483647
\* Math.max(interpolated + noise, 1): one dollar, in 1/10000 dollar
CloseFloor == 10000
\* Math.max(..., 5e6): 5,000,000 shares, in 10000 shares
VolumeFloor == 500

\* seed = (seed * 16807) % 2147483647, computed without leaving 32 bits
\* (Schrage: 2147483647 = 16807 * 127773 + 2836)
LcgNext(seed) ==
  LET q == LcgMod \div LcgMul
      r == LcgMod % LcgMul
      t == LcgMul * (seed % q) - r * (seed \div q)
  IN IF t > 0 THEN t ELSE t + LcgMod

\* (seed - 1) / 2147483646 as a fraction of 65536
Frac(seed) == (seed - 1) \div 32768

\* x.toFixed(2) of a price in 1/10000 dollar, in cents
ToFixed2(x) == (x + 50) \div 100

\* the seed entering an invocation of fetchFallbackData: a fresh local
SeedCarriedOver(previous) == previous
SeedAtEntry(previous) == SeedStart

\* the six pseudoRandom() values of one bar, in call order, and the seed
\* after them
Roll(seed) == [seed |-> LcgNext(seed), value |-> Frac(LcgNext(seed))]

SixRolls(seed) ==
  LET r1 == Roll(seed)
      r2 == Roll(r1.seed)
      r3 == Roll(r2.seed)
      r4 == Roll(r3.seed)
      r5 == Roll(r4.seed)
      r6 == Roll(r5.seed)
  IN <<r1.value, r2.value, r3.value, r4.value, r5.value, r6.value, r6.seed>>

\* c1 + (c2 - c1) * t and v1 + (v2 - v1) * t with t = dayCount / totalDays
Interpolate(from, to, dayCount, totalDays) ==
  from + ((to - from) * dayCount) \div totalDays

\* Math.max(interpolated + noise, 1)
CloseOf(interpolated, r1) ==
  Max2(interpolated + ((2 * r1 - 65536) * (interpolated \div 40)) \div 65536, CloseFloor)

\* close * (0.01 + pseudoRandom() * 0.02)
RangeOf(close, r2) == (close \div 100) + ((close \div 50) * r2) \div 65536

\* close + (pseudoRandom() - 0.5) * range
OpenOf(close, range, r3) == close + ((2 * r3 - 65536) * range) \div 131072

\* Math.max(Math.floor(v1 + (v2 - v1) * t + volNoise), 5e6)
VolumeOf(v1, interpolated, r6) ==
  Max2(interpolated + (((r6 \div 16) - 1229) * (v1 \div 2)) \div 4096, VolumeFloor)

PushBar(date, open, close, range, volume, r) ==
  [date |-> date,
   open |-> ToFixed2(open),
   high |-> ToFixed2(Max2(open, close) + (r[4] * range) \div 65536),
   low |-> ToFixed2(Min2(open, close) - (r[5] * range) \div 65536),
   close |-> ToFixed2(close),
   volume |-> volume]

BarWithRange(date, close, range, volume, r) ==
  PushBar(date, OpenOf(close, range, r[3]), close, range, volume, r)

BarWithClose(date, close, volume, r) ==
  BarWithRange(date, close, RangeOf(close, r[2]), volume, r)

\* the body of `if (dow !== 0 && dow !== 6)`: the bar pushed
MakeBar(a1, a2, current, dayCount, r) ==
  BarWithClose(
    current,
    CloseOf(Interpolate(a1[4] * 100, a2[4] * 100, dayCount,
                        NewDate(a2[1], a2[2], a2[3]) - NewDate(a1[1], a1[2], a1[3])),
            r[1]),
    VolumeOf(a1[5],
             Interpolate(a1[5], a2[5], dayCount,
                         NewDate(a2[1], a2[2], a2[3]) - NewDate(a1[1], a1[2], a1[3])),
             r[6]),
    r)

\* the locals of one invocation at its start (before the for loop)
GenStart(previousSeed) ==
  [i |-> 1, current |-> NewDate(anchors[1][1], anchors[1][2], anchors[1][3]),
   dayCount |-> 0, seed |-> SeedAtEntry(previousSeed), data |-> <<>>]

\* while (current < date2)
InSegment(g) ==
  /\ g.i < Len(anchors)
  /\ g.current < NewDate(anchors[g.i + 1][1], anchors[g.i + 1][2], anchors[g.i + 1][3])

\* one iteration of the while loop
IterateWith(g, emit, r) ==
  [i |-> g.i,
   current |-> g.current + 1,
   dayCount |-> g.dayCount + 1,
   seed |-> IF emit THEN r[7] ELSE g.seed,
   data |-> IF emit
            THEN Append(g.data, MakeBar(anchors[g.i], anchors[g.i + 1], g.current,
                                        g.dayCount, r))
            ELSE g.data]

GenIterate(g) ==
  IterateWith(g, GetDay(g.current) # 0 /\ GetDay(g.current) # 6, SixRolls(g.seed))

\* i++ of the for loop: the next pair of anchors
GenNextSegment(g) ==
  [i |-> g.i + 1,
   current |-> NewDate(anchors[g.i + 1][1], anchors[g.i + 1][2], anchors[g.i + 1][3]),
   dayCount |-> 0, seed |-> g.seed, data |-> g.data]

GenFinished(g) == g.i >= Len(anchors)

RECURSIVE RunSegment(_)
RunSegment(g) == IF InSegment(g) THEN RunSegment(GenIterate(g)) ELSE g

RECURSIVE RunGenerator(_)
RunGenerator(g) ==
  IF GenFinished(g) THEN g ELSE RunGenerator(GenNextSegment(RunSegment(g)))

\* the array fetchFallbackData returns
FallbackData == RunGenerator(GenStart(SeedStart)).data

\* ------------------------------------------------------------------------
\* Raw payloads of the remote sources (the inputs of a load)
\* ------------------------------------------------------------------------
\* new Date(): the day the page is opened
Today == 2500
\* longest irregular tail of a payload
MaxHead == 2
\* close of the regular records of a payload
PadClose == 10
\* volume of every remote record
RawVolume == 1000

\* one record of a payload; a field is a number, Str or Nul
MkRaw(d, c) == [date |-> d, open |-> c, high |-> c, low |-> c, close |-> c,
                volume |-> RawVolume]

\* k well-formed records on k consecutive days ending ten days ago
Pad(k) == [j \in 1..k |-> MkRaw(Today - 10 - (k - j), PadClose)] \o <<>>

\* the records a payload may end with: the day after the regular records,
\* the last regular day again with a zero close, and a close that is not a
\* number; two of them make payloads out of order or with a date twice
TailRecords == {MkRaw(Today - 9, 5), MkRaw(Today - 10, 0), MkRaw(Today - 8, Str)}

RECURSIVE SeqsUpTo(_, _)
SeqsUpTo(S, n) ==
  IF n = 0 THEN {<<>>}
  ELSE LET shorter == SeqsUpTo(S, n - 1)
       IN shorter \cup {Append(q, x) : q \in {t \in shorter : Len(t) = n - 1}, x \in S}

\* the payloads of a source: short ones with every tail, and long ones of
\* k and of k + 1 records
PayloadsAround(k) ==
  SeqsUpTo(TailRecords, MaxHead) \cup {Pad(k) \o h : h \in SeqsUpTo(TailRecords, 1)}

\* ------------------------------------------------------------------------
\* JavaScript array and number primitives used by the page
\* ------------------------------------------------------------------------
\* parseFloat / parseInt / Number of a field's text
ParseFloat(tok) == IF tok = Str \/ tok = Nul THEN NaN ELSE tok

\* ToNumber of a value used in arithmetic
ToNumber(x) == IF x = Str THEN NaN ELSE IF x = Nul THEN 0 ELSE x

JsSub(a, b) ==
  IF ToNumber(a) = NaN \/ ToNumber(b) = NaN THEN NaN ELSE ToNumber(a) - ToNumber(b)

JsMul(a, k) == IF ToNumber(a) = NaN THEN NaN ELSE ToNumber(a) * k

\* (a / b) * 100 in hundredths; a division by zero or of NaN is not finite
JsPct(a, b) ==
  IF ToNumber(a) = NaN \/ ToNumber(b) = NaN \/ ToNumber(b) = 0 THEN NaN
  ELSE (ToNumber(a) * 10000) \div ToNumber(b)

\* a / k for a positive k
JsDiv(a, k) == IF ToNumber(a) = NaN THEN NaN ELSE ToNumber(a) \div k

JsMax(a, b) ==
  IF ToNumber(a) = NaN \/ ToNumber(b) = NaN THEN NaN ELSE Max2(ToNumber(a), ToNumber(b))

JsMin(a, b) ==
  IF ToNumber(a) = NaN \/ ToNumber(b) = NaN THEN NaN ELSE Min2(ToNumber(a), ToNumber(b))

\* Array.prototype.filter(d => d.date >= cutoff): a new array; the receiver
\* is left as it was
FilterTruncating(arr, cutoff) ==
  LET kept == SelectSeq(arr, LAMBDA d : d.date >= cutoff)
  IN [result |-> kept, receiver |-> kept]
FilterByDate(arr, cutoff) ==
  [result |-> SelectSeq(arr, LAMBDA d : d.date >= cutoff), receiver |-> arr]

\* Array.prototype.slice(-n): the last n elements (all when n >= length,
\* all as well for slice(-0)); the receiver is left as it was
SliceLast(arr, n) ==
  IF n <= 0 \/ n >= Len(arr) THEN arr ELSE SubSeq(arr, Len(arr) - n + 1, Len(arr))

\* where element j of arr stands after a stable ascending sort by date
SortedPlace(arr, j) ==
  Cardinality({i \in 1..Len(arr) : arr[i].date < arr[j].date})
    + Cardinality({i \in 1..j : arr[i].date = arr[j].date})

\* Array.prototype.sort((a, b) => a.date - b.date): stable, ascending
SortByDate(arr) ==
  LET place == [j \in 1..Len(arr) |-> SortedPlace(arr, j)] \o <<>>
  IN [p \in 1..Len(arr) |-> arr[CHOOSE j \in 1..Len(arr) : place[j] = p]] \o <<>>

\* JSON.parse of an object, then Object.entries: a key written twice keeps
\* the place of its first occurrence and the value of its last
ObjectEntries(recs) ==
  LET n == Len(recs)
      \* 0 where the key was written before, else the last record with it
      last == [j \in 1..n |->
                 IF \E i \in 1..(j - 1) : recs[i].date = recs[j].date THEN 0
                 ELSE CHOOSE i \in j..n :
                        /\ recs[i].date = recs[j].date
                        /\ \A h \in (i + 1)..n : recs[h].date # recs[j].date] \o <<>>
      kept == SelectSeq(last, LAMBDA i : i # 0)
  IN [p \in 1..Len(kept) |-> recs[kept[p]]] \o <<>>

\* fetchFromAlphaVantage: Object.entries(ts).map(...).sort(...)
AlphaVantageSeries(payload) ==
  LET entries == ObjectEntries(payload)
      mapped == [j \in 1..Len(entries) |->
                   [date |-> entries[j].date,
                    open |-> ParseFloat(entries[j].open),
                    high |-> ParseFloat(entries[j].high),
                    low |-> ParseFloat(entries[j].low),
                    close |-> ParseFloat(entries[j].close),
                    volume |-> ParseFloat(entries[j].volume)]]
  IN SortByDate(mapped \o <<>>)

\* fetchFromYahoo: the loop pushing every quote whose close is not null
YahooSeries(payload) == SelectSeq(payload, LAMBDA q : q.close # Nul)


\* ------------------------------------------------------------------------
\* script.js: the page's elements, STATE and the display
\* ------------------------------------------------------------------------
\* the text elements updateTickerDisplay writes
TextSlots ==
  {"tickerPrice", "tickerChange", "heroMarketCap", "metricPrice", "metricPriceChange",
   "metric52High", "metric52Low", "metricVolume", "compPltrMcap", "compPltrPS"}

\* the canvases of the charts drawn once by init
StaticCanvases == {"revenueChart", "profitChart", "segmentChart", "targetChart"}

\* the elements initNavbar uses without a check
NavElements == {"navbar", "mobileToggle", "navLinks"}

AllElements ==
  TextSlots \cup StaticCanvases \cup NavElements
    \cup {"priceChart", "volumeChart", "priceChartControls"}

\* the documents the page is opened in: which elements exist
Documents ==
  {AllElements,
   AllElements \ {"tickerPrice", "metricPrice"},
   AllElements \ {"revenueChart"}}

\* data-range of the .chart-btn buttons
Ranges == {30, 365, 1825}

\* STATE.currentRange: 365
DefaultRange == 365
\* range < 1825: a number of days; otherwise from the IPO
MaxRange == 1825
\* data.length > 100
AcceptLimit == 100
\* sharesOutstanding = 2.36e9, in 10^7 shares
SharesOutstanding == 236
\* marketCap / 2.87e9, in 10^7 dollars
TrailingRevenue == 287
\* data.slice(-30)
VolumeWindow == 30
\* data.slice(-60)
VolumeBars == 60
\* oneYearAgo.setFullYear(getFullYear() - 1), in days
YearDays == 365

\* the bodies a remote source may answer with, and the arrays the two
\* adapters make of them
RemotePayloads == PayloadsAround(AcceptLimit)
AlphaVantageResults == {AlphaVantageSeries(p) : p \in RemotePayloads}
YahooResults == {YahooSeries(p) : p \in RemotePayloads}

\* a value that is null or an array
NullData == [null |-> TRUE, bars |-> <<>>]
Data(bars) == [null |-> FALSE, bars |-> bars]

\* no chart instance (STATE.priceChart: null)
NoChart == [id |-> 0, range |-> 0, points |-> <<>>]

\* `data && data.length > 100`
AcceptsAnyLength(data) == ~data.null
Accepts(data) == ~data.null /\ Len(data.bars) > AcceptLimit

\* STATE.stockData = data
StoreOnce(old, data) == IF old.null THEN Data(data) ELSE old
StoreSeries(old, data) == Data(data)

\* the wait for a request: the coordinator resumes when it has settled
SettleLate(requests, r) == requests
Settle(requests, r) == requests \ {r}

Issue(requests, r) == requests \cup {r}

\* Math.max(...values) and Math.min(...values) of a non-empty array
MaxOf(values) ==
  LET nums == {ToNumber(values[k]) : k \in 1..Len(values)}
  IN IF NaN \in nums THEN NaN ELSE CHOOSE m \in nums : \A x \in nums : x <= m

MinOf(values) ==
  LET nums == {ToNumber(values[k]) : k \in 1..Len(values)}
  IN IF NaN \in nums THEN NaN ELSE CHOOSE m \in nums : \A x \in nums : m <= x

RECURSIVE SumVolume(_, _)
SumVolume(arr, k) ==
  IF k > Len(arr) THEN 0 ELSE ToNumber(arr[k].volume) + SumVolume(arr, k + 1)

\* the values updateTickerDisplay computes from a non-empty array
TickerValues(bars) ==
  LET latest == bars[Len(bars)]
      prev == IF Len(bars) >= 2 THEN bars[Len(bars) - 1] ELSE latest
      change == JsSub(latest.close, prev.close)
      changePct == JsPct(change, prev.close)
      marketCap == JsMul(latest.close, SharesOutstanding)
      yearData == FilterByDate(bars, Today - YearDays).result
      recent == SliceLast(bars, VolumeWindow)
  IN [tickerPrice |-> latest.close,
      tickerChange |-> change,
      heroMarketCap |-> marketCap,
      metricPrice |-> latest.close,
      metricPriceChange |-> changePct,
      metric52High |-> IF yearData = <<>> THEN Nul
                       ELSE MaxOf([k \in 1..Len(yearData) |-> yearData[k].high] \o <<>>),
      metric52Low |-> IF yearData = <<>> THEN Nul
                      ELSE MinOf([k \in 1..Len(yearData) |-> yearData[k].low] \o <<>>),
      metricVolume |-> SumVolume(recent, 1) \div Len(recent),
      compPltrMcap |-> marketCap,
      compPltrPS |-> JsDiv(marketCap, TrailingRevenue)]

\* updateTickerDisplay(null, data): the display after it and whether it
\* threw (latest.close.toFixed of a close that is no number)
UpdateTickerDisplay(shown, data, present) ==
  IF data.null \/ data.bars = <<>> THEN [display |-> shown, threw |-> FALSE]
  ELSE LET v == TickerValues(data.bars)
           noFixed == ~IsNumber(v.tickerPrice)
           stopAt == IF noFixed /\ "tickerPrice" \in present THEN 1
                     ELSE IF noFixed /\ "metricPrice" \in present THEN 2
                     ELSE 0
           reached == IF stopAt = 1 THEN {}
                      ELSE IF stopAt = 2 THEN {"tickerPrice", "tickerChange", "heroMarketCap"}
                      ELSE TextSlots
           written == {s \in reached \cap present : v[s] # Nul}
       IN [display |-> [s \in TextSlots |-> IF s \in written THEN v[s] ELSE shown[s]],
           threw |-> stopAt # 0]

\* filtered.map(d => d.close) and recent.map(d => d.volume)
Closes(bars) == [k \in 1..Len(bars) |-> bars[k].close] \o <<>>
Volumes(bars) == [k \in 1..Len(bars) |-> bars[k].volume] \o <<>>

\* the cutoff of renderPriceChart
Cutoff(range) ==
  IF range < MaxRange THEN Today - range ELSE NewDate(2020, 8, 1)

\* renderPriceChart(data, range): the chart after it, STATE.stockData's
\* array after it, and whether it threw (canvas.getContext of null)
RenderPriceChart(chart, data, range, present, nextId) ==
  IF data.null \/ data.bars = <<>>
  THEN [chart |-> chart, data |-> data, threw |-> FALSE, created |-> FALSE]
  ELSE LET f == FilterByDate(data.bars, Cutoff(range))
       IN IF "priceChart" \notin present
          THEN [chart |-> chart, data |-> Data(f.receiver), threw |-> TRUE,
                created |-> FALSE]
          ELSE [chart |-> [id |-> nextId, range |-> range, points |-> Closes(f.result)],
                data |-> Data(f.receiver), threw |-> FALSE, created |-> TRUE]

\* renderVolumeChart(data)
RenderVolumeChart(chart, data, present, nextId) ==
  IF data.null \/ data.bars = <<>>
  THEN [chart |-> chart, threw |-> FALSE, created |-> FALSE]
  ELSE IF "volumeChart" \notin present
  THEN [chart |-> chart, threw |-> TRUE, created |-> FALSE]
  ELSE [chart |-> [id |-> nextId, range |-> 0,
                   points |-> Volumes(SliceLast(data.bars, VolumeBars))],
        threw |-> FALSE, created |-> TRUE]

\* ------------------------------------------------------------------------
\* script.js: init, fetchStockData and the event listeners
\* ------------------------------------------------------------------------
VARIABLES
  page,          \* which script.js the document loads: "script" or "patch"
  present,       \* the elements the document has
  pc,            \* where the page's load is
  listening,     \* the event listeners are registered
  inflight,      \* the data-source requests that have not settled
  stockData,     \* STATE.stockData
  result,        \* what fetchStockData returned
  attempts,      \* the sources tried so far: [src, threw, len]
  produced,      \* the array of the remote source tried last; none once
                 \* the generator has taken over
  writes,        \* the sources that assigned STATE.stockData, in order
  display,       \* the text of the TextSlots (the number shown)
  currentRange,  \* STATE.currentRange
  priceChart,    \* STATE.priceChart
  volumeChart,   \* STATE.volumeChart
  chartSeq,      \* how many Chart instances were constructed
  events,        \* how many user events were handled
  scrolled,      \* navbar has the class "scrolled"
  menuOpen,      \* navLinks has the class "open"
  reads,         \* what the range handler found in the shared series, and when
  fullSeries     \* part_000: let fullSeries

pageVars ==
  <<fullSeries, page, present, pc, listening, inflight, stockData, result,
    attempts, produced, writes, display, currentRange, priceChart,
    volumeChart, chartSeq, events, scrolled, menuOpen, reads>>

\* fetchFallbackData as a process of its own: its locals, where it is, how
\* often it was invoked, and what its first invocation returned
VARIABLES gen, genPhase, genCalls, genFirst

genVars == <<gen, genPhase, genCalls, genFirst>>

vars == <<pageVars, genVars>>

\* how many user events a run handles
MaxEvents == 2

ScriptInit ==
  /\ page = "script"
  /\ present \in Documents
  /\ pc = "boot"
  /\ listening = FALSE
  /\ inflight = {}
  /\ stockData = NullData
  /\ result = NullData
  /\ attempts = <<>>
  /\ produced = <<>>
  /\ writes = <<>>
  /\ display = [s \in TextSlots |-> Nul]
  /\ currentRange = DefaultRange
  /\ priceChart = NoChart
  /\ volumeChart = NoChart
  /\ chartSeq = 0
  /\ events = 0
  /\ scrolled = FALSE
  /\ menuOpen = FALSE
  /\ reads = {}
  /\ fullSeries = <<>>

Attempt(src, threw, len) == [src |-> src, threw |-> threw, len |-> len]

\* init() up to its await: the listeners, the static charts, then
\* fetchStockData() -> fetchFromAlphaVantage() -> fetch(url)
InitPage ==
  /\ page = "script"
  /\ pc = "boot"
  /\ IF NavElements \subseteq present /\ StaticCanvases \subseteq present
     THEN /\ listening' = TRUE
          /\ inflight' = Issue(inflight, "alphavantage")
          /\ pc' = "av_fetch"
     ELSE /\ listening' = (NavElements \subseteq present)
          /\ pc' = "crashed"
          /\ UNCHANGED inflight
  /\ UNCHANGED <<genVars, fullSeries, page, present, stockData, result,
                 attempts, produced, writes, display, currentRange, priceChart,
                 volumeChart, chartSeq, events, scrolled, menuOpen, reads>>

\* the catch of attempt 1, or a too short array: fetchFromYahoo() -> fetch(url)
StartYahoo(log) ==
  /\ attempts' = log
  /\ inflight' = Issue(Settle(inflight, "alphavantage"), "yahoo")
  /\ pc' = "yh_fetch"
  /\ UNCHANGED result

\* return fetchFallbackData(), ending fetchStockData
FallbackReturns(log, stored, u, written, synthetic) ==
  /\ attempts' = Append(log, Attempt("synthetic", u.threw, Len(synthetic)))
  /\ inflight' = Settle(inflight, "yahoo")
  /\ stockData' = stored
  /\ writes' = Append(written, "synthetic")
  /\ produced' = <<>>
  /\ display' = u.display
  /\ IF u.threw
     THEN pc' = "crashed" /\ UNCHANGED result
     ELSE pc' = "returned" /\ result' = Data(synthetic)

FallbackStores(log, stored, shown, written, synthetic) ==
  FallbackReturns(log, stored, UpdateTickerDisplay(shown, stored, present), written,
                  synthetic)

\* a fallback that hands back what is stored instead of generating
FallbackSkipped(log, data, shown, written, synthetic) ==
  FallbackStores(log, StoreSeries(data, data.bars), shown, written, data.bars)
FallbackRuns(log, data, shown, written, synthetic) ==
  FallbackStores(log, StoreSeries(data, synthetic), shown, written, synthetic)

\* a coordinator without its last resort: the failure of attempt 2 reaches
\* the caller
NoFallback(log, data, shown, written) ==
  /\ attempts' = log
  /\ inflight' = Settle(inflight, "yahoo")
  /\ stockData' = data
  /\ writes' = written
  /\ display' = shown
  /\ pc' = "crashed"
  /\ UNCHANGED <<produced, result>>

\* the catch of attempt 2, or a too short array: return fetchFallbackData()
UseFallback(log, data, shown, written) ==
  FallbackRuns(log, data, shown, written, FallbackData)

\* await fetch(url) of fetchFromAlphaVantage settles
AlphaVantageResponds ==
  /\ page = "script"
  /\ pc = "av_fetch"
  /\ \E outcome \in {"ok", "http_error", "network_error"} :
       IF outcome = "ok"
       THEN /\ pc' = "av_json"
            /\ UNCHANGED <<inflight, attempts, result>>
       ELSE StartYahoo(Append(attempts, Attempt("alphavantage", TRUE, 0)))
  /\ UNCHANGED <<genVars, fullSeries, page, present, listening, stockData,
                 produced, writes, display, currentRange, priceChart,
                 volumeChart, chartSeq, events, scrolled, menuOpen, reads>>

\* await resp.json() of fetchFromAlphaVantage settles, and the rest of
\* fetchFromAlphaVantage and of attempt 1 runs
AlphaVantageBody ==
  /\ page = "script"
  /\ pc = "av_json"
  /\ \/ \* the body is no JSON, or has no 'Time Series (Daily)'
        /\ StartYahoo(Append(attempts, Attempt("alphavantage", TRUE, 0)))
        /\ UNCHANGED <<stockData, produced, writes, display>>
     \/ \E data \in AlphaVantageResults :
          LET stored == StoreSeries(stockData, data)
              u == UpdateTickerDisplay(display, stored, present)
              log == Append(attempts, Attempt("alphavantage", u.threw, Len(data)))
          IN /\ stockData' = stored
             /\ writes' = Append(writes, "alphavantage")
             /\ produced' = data
             /\ display' = u.display
             /\ IF ~u.threw /\ Accepts(Data(data))
                THEN /\ result' = Data(data)
                     /\ attempts' = log
                     /\ inflight' = Settle(inflight, "alphavantage")
                     /\ pc' = "returned"
                ELSE StartYahoo(log)
  /\ UNCHANGED <<genVars, fullSeries, page, present, listening, currentRange,
                 priceChart, volumeChart, chartSeq, events, scrolled, menuOpen,
                 reads>>

\* await fetch(url) of fetchFromYahoo settles
YahooResponds ==
  /\ page = "script"
  /\ pc = "yh_fetch"
  /\ \E outcome \in {"ok", "http_error", "network_error"} :
       IF outcome = "ok"
       THEN /\ pc' = "yh_json"
            /\ UNCHANGED <<inflight, attempts, result, stockData, produced,
                           writes, display>>
       ELSE UseFallback(Append(attempts, Attempt("yahoo", TRUE, 0)), stockData,
                        display, writes)
  /\ UNCHANGED <<genVars, fullSeries, page, present, listening, currentRange,
                 priceChart, volumeChart, chartSeq, events, scrolled, menuOpen,
                 reads>>

\* await resp.json() of fetchFromYahoo settles, and the rest of
\* fetchFromYahoo and of fetchStockData runs
YahooBody ==
  /\ page = "script"
  /\ pc = "yh_json"
  /\ \/ \* the body is no JSON, or json.chart.result[0] is missing
        UseFallback(Append(attempts, Attempt("yahoo", TRUE, 0)), stockData, display,
                    writes)
     \/ \E data \in YahooResults :
          LET stored == StoreSeries(stockData, data)
              u == UpdateTickerDisplay(display, stored, present)
              log == Append(attempts, Attempt("yahoo", u.threw, Len(data)))
          IN IF ~u.threw /\ Accepts(Data(data))
             THEN /\ stockData' = stored
                  /\ writes' = Append(writes, "yahoo")
                  /\ produced' = data
                  /\ display' = u.display
                  /\ result' = Data(data)
                  /\ attempts' = log
                  /\ inflight' = Settle(inflight, "yahoo")
                  /\ pc' = "returned"
             ELSE UseFallback(log, stored, u.display, Append(writes, "yahoo"))
  /\ UNCHANGED <<genVars, fullSeries, page, present, listening, currentRange,
                 priceChart, volumeChart, chartSeq, events, scrolled, menuOpen,
                 reads>>

\* init() resumes with the array fetchStockData returned
InitResumes ==
  /\ page = "script"
  /\ pc = "returned"
  /\ LET p == RenderPriceChart(priceChart, result, currentRange, present, chartSeq + 1)
         seq == IF p.created THEN chartSeq + 1 ELSE chartSeq
         v == RenderVolumeChart(volumeChart, result, present, seq + 1)
     IN /\ priceChart' = p.chart
        /\ volumeChart' = IF p.threw THEN volumeChart ELSE v.chart
        /\ chartSeq' = IF ~p.threw /\ v.created THEN seq + 1 ELSE seq
        /\ pc' = IF p.threw \/ v.threw THEN "crashed" ELSE "done"
  /\ UNCHANGED <<genVars, fullSeries, page, present, listening, inflight,
                 stockData, result, attempts, produced, writes, display,
                 currentRange, events, scrolled, menuOpen, reads>>

\* a user event is dispatched between two steps of the load, never
\* between the return of fetchStockData and the resumption of init
CanHandleEvent ==
  /\ listening
  /\ pc # "returned"
  /\ events < MaxEvents

\* when the range handler read STATE.stockData
ReadKind ==
  IF result.null THEN (IF stockData.null THEN "before_null" ELSE "before_unaccepted")
  ELSE "after_accept"

\* click on a .chart-btn of priceChartControls
ClickRange ==
  /\ page = "script"
  /\ CanHandleEvent
  /\ "priceChartControls" \in present
  /\ \E range \in Ranges :
       LET p == RenderPriceChart(priceChart, stockData, range, present, chartSeq + 1)
       IN /\ currentRange' = range
          /\ reads' = reads \cup {ReadKind}
          /\ priceChart' = p.chart
          /\ stockData' = p.data
          /\ chartSeq' = IF p.created THEN chartSeq + 1 ELSE chartSeq
  /\ events' = events + 1
  /\ UNCHANGED <<genVars, fullSeries, page, present, pc, listening, inflight,
                 result, attempts, produced, writes, display, volumeChart,
                 scrolled, menuOpen>>

\* scroll of the window
Scroll ==
  /\ page = "script"
  /\ CanHandleEvent
  /\ \E beyond50 \in BOOLEAN : scrolled' = beyond50
  /\ events' = events + 1
  /\ UNCHANGED <<genVars, fullSeries, page, present, pc, listening, inflight,
                 stockData, result, attempts, produced, writes, display,
                 currentRange, priceChart, volumeChart, chartSeq, menuOpen,
                 reads>>

\* click on mobileToggle
MenuClick ==
  /\ page = "script"
  /\ CanHandleEvent
  /\ menuOpen' = ~menuOpen
  /\ events' = events + 1
  /\ UNCHANGED <<genVars, fullSeries, page, present, pc, listening, inflight,
                 stockData, result, attempts, produced, writes, display,
                 currentRange, priceChart, volumeChart, chartSeq, scrolled,
                 reads>>

LoadStep ==
  InitPage \/ AlphaVantageResponds \/ AlphaVantageBody \/ YahooResponds \/ YahooBody
    \/ InitResumes

ScriptNext == LoadStep \/ ClickRange \/ Scroll \/ MenuClick

\* ------------------------------------------------------------------------
\* part_000: parseCSV, the metrics, loadData and the listeners
\* ------------------------------------------------------------------------
\* the text elements of the patch version
PatchSlots ==
  {"dataStatus", "latestClose", "ytdReturn", "volatility", "multipleValue",
   "impliedPrice"}

PatchElements ==
  PatchSlots \cup {"rangeSelect", "multipleSlider", "priceChart", "volumeChart",
                   "comparisonChart"}

\* the values of the options of rangeSelect (0: every bar)
RangeOptions == {1, 90, 0}
\* the option selected when the page opens
FirstOption == 90
\* the values the slider is moved to
SliderValues == {10, 24}
\* the slider's value when the page opens
FirstMultiple == 24

\* fullSeries.length < 200
CsvMinimum == 200
\* fullSeries.length - 252
LookbackBars == 252
\* calcVolatility(data, lookback = 90)
VolLookback == 90
\* Math.sqrt(252)
TradingDays == 252
\* revenue2027 = 8.5e9, netCashAdj = 4.0e9, shares = 2.3e9, in 10^8
Revenue2027 == 85
NetCashAdj == 40
Shares == 23

\* the first line of the CSV text
HeaderLine == MkRaw(0, Str)

\* the texts the CSV endpoint may answer with, as lines split on ','
\* texts of bars at one close, and a year of such bars after a first day at
\* half that close
FlatTexts == {<<HeaderLine>> \o Pad(k) : k \in {CsvMinimum, LookbackBars}}
DoublingText == <<HeaderLine, MkRaw(Today - 10 - LookbackBars, 5)>> \o Pad(LookbackBars)

CsvTexts ==
  {<<>>, DoublingText}
    \cup FlatTexts
    \cup {<<HeaderLine>> \o p : p \in PayloadsAround(CsvMinimum - 1)}

\* Number(text) of a field
NumberOf(tok) == IF tok = Str THEN NaN ELSE IF tok = Nul THEN 0 ELSE tok

\* parseCSV(text): the lines after the first, mapped and filtered
KeepClose(d) == d.close # NaN /\ d.close > 0

ParseCSV(lines) ==
  LET body == IF lines = <<>> THEN <<>> ELSE Tail(lines)
      mapped == [j \in 1..Len(body) |->
                   [date |-> body[j].date,
                    open |-> NumberOf(body[j].open),
                    high |-> NumberOf(body[j].high),
                    low |-> NumberOf(body[j].low),
                    close |-> NumberOf(body[j].close),
                    volume |-> NumberOf(body[j].volume)]] \o <<>>
  IN SelectSeq(mapped, KeepClose)

\* the arrays parseCSV makes of the texts
CsvResults == {ParseCSV(t) : t \in CsvTexts}

\* pct(a, b) = ((a - b) / b) * 100, in tenths of a percent
Pct(a, b) == IF b = 0 THEN NaN ELSE ((a - b) * 1000) \div b

\* Math.log(a / b) in thousandths
LogRatio(a, b) == (2000 * (a - b)) \div (a + b)

\* the sum of f[lo..hi]
RECURSIVE SumOf(_, _, _)
SumOf(f, lo, hi) ==
  IF lo > hi THEN 0
  ELSE IF lo = hi THEN f[lo]
  ELSE SumOf(f, lo, (lo + hi) \div 2) + SumOf(f, (lo + hi) \div 2 + 1, hi)

\* Math.sqrt of a natural number, rounded down
RECURSIVE SqrtBetween(_, _, _)
SqrtBetween(n, lo, hi) ==
  IF lo >= hi THEN lo
  ELSE LET mid == (lo + hi + 1) \div 2
       IN IF mid * mid <= n THEN SqrtBetween(n, mid, hi) ELSE SqrtBetween(n, lo, mid - 1)

Sqrt(n) == SqrtBetween(n, 0, 40000)

\* calcVolatility(data), in tenths of a percent; NaN when there are fewer
\* than two returns
CalcVolatility(data) ==
  LET tail == SliceLast(data, VolLookback)
      returns == [i \in 1..(Len(tail) - 1) |->
                    LogRatio(tail[i + 1].close, tail[i].close)] \o <<>>
      n == Len(returns)
      mean == IF n = 0 THEN 0 ELSE SumOf(returns, 1, n) \div n
      squares == [i \in 1..n |-> (returns[i] - mean) * (returns[i] - mean)] \o <<>>
  IN IF n < 2 THEN NaN ELSE Sqrt((SumOf(squares, 1, n) \div (n - 1)) * TradingDays)

\* ((revenue2027 * multiple + netCashAdj) / shares).toFixed(2), in cents
ImpliedPrice(multiple) ==
  (2 * 100 * (Revenue2027 * multiple + NetCashAdj) + Shares) \div (2 * Shares)

\* Array.prototype.slice(-n) of getWindowData: a new array; the receiver
\* is left as it was
GetWindowData(arr, n) == [result |-> SliceLast(arr, n), receiver |-> arr]

\* one chart of buildOrUpdateCharts: constructed once, then updated in place
BuildOrUpdate(chart, points, nextId) ==
  IF chart.id = 0 THEN [id |-> nextId, range |-> 0, points |-> points]
  ELSE [chart EXCEPT !.points = points]

PatchInit ==
  /\ page = "patch"
  /\ present = PatchElements
  /\ pc = "boot"
  /\ listening = FALSE
  /\ inflight = {}
  /\ stockData = NullData
  /\ result = NullData
  /\ attempts = <<>>
  /\ produced = <<>>
  /\ writes = <<>>
  /\ display = [s \in PatchSlots |-> Nul]
  /\ currentRange = FirstOption
  /\ priceChart = NoChart
  /\ volumeChart = NoChart
  /\ chartSeq = 0
  /\ events = 0
  /\ scrolled = FALSE
  /\ menuOpen = FALSE
  /\ reads = {}
  /\ fullSeries = <<>>

\* buildOrUpdateCharts(): both charts from the window of fullSeries
\* (volumes stay in shares; the chart shows them divided by 1 000 000)
ChartsBuilt(series, selected) ==
  LET w == GetWindowData(series, selected)
      madePrice == priceChart.id = 0
      madeVolume == volumeChart.id = 0
  IN /\ fullSeries' = w.receiver
     /\ priceChart' = BuildOrUpdate(priceChart, Closes(w.result), chartSeq + 1)
     /\ volumeChart' = BuildOrUpdate(volumeChart, Volumes(w.result),
                                     IF madePrice THEN chartSeq + 2 ELSE chartSeq + 1)
     /\ chartSeq' = chartSeq + (IF madePrice THEN 1 ELSE 0)
                             + (IF madeVolume THEN 1 ELSE 0)

\* the script runs: the listeners, updateTargetFromMultiple(),
\* initComparisonChart(), and loadData() up to its fetch
PatchBoot ==
  /\ page = "patch"
  /\ pc = "boot"
  /\ listening' = TRUE
  /\ display' = [display EXCEPT !["multipleValue"] = FirstMultiple,
                                !["impliedPrice"] = ImpliedPrice(FirstMultiple)]
  /\ inflight' = Issue(inflight, "stooq")
  /\ pc' = "csv_fetch"
  /\ UNCHANGED <<genVars, fullSeries, page, present, stockData, result,
                 attempts, produced, writes, currentRange, priceChart,
                 volumeChart, chartSeq, events, scrolled, menuOpen, reads>>

\* the catch of loadData
LoadFails ==
  /\ display' = [display EXCEPT !["dataStatus"] = 0]
  /\ inflight' = Settle(inflight, "stooq")
  /\ pc' = "failed"

\* await fetch(api) settles
CsvResponds ==
  /\ page = "patch"
  /\ pc = "csv_fetch"
  /\ \E outcome \in {"ok", "http_error", "network_error"} :
       IF outcome = "ok"
       THEN pc' = "csv_text" /\ UNCHANGED <<inflight, display>>
       ELSE LoadFails
  /\ UNCHANGED <<genVars, fullSeries, page, present, listening, stockData,
                 result, attempts, produced, writes, currentRange, priceChart,
                 volumeChart, chartSeq, events, scrolled, menuOpen, reads>>

\* the test `fullSeries.length < 200` does not throw
SufficientNonEmpty(series) == Len(series) >= 1
Sufficient(series) == Len(series) >= CsvMinimum

\* await res.text() settles, and the rest of loadData runs
CsvBody ==
  /\ page = "patch"
  /\ pc = "csv_text"
  /\ \/ \* the body cannot be read
        /\ LoadFails
        /\ UNCHANGED <<fullSeries, priceChart, volumeChart, chartSeq>>
     \/ \E series \in CsvResults :
          IF ~Sufficient(series)
          THEN /\ fullSeries' = series
               /\ LoadFails
               /\ UNCHANGED <<priceChart, volumeChart, chartSeq>>
          ELSE LET latest == series[Len(series)]
                   oneYearAgo == series[Max2(0, Len(series) - LookbackBars) + 1]
               IN /\ display' = [display EXCEPT
                       !["latestClose"] = latest.close,
                       !["ytdReturn"] = Pct(latest.close, oneYearAgo.close),
                       !["volatility"] = CalcVolatility(series),
                       !["dataStatus"] = Len(series)]
                  /\ ChartsBuilt(series, currentRange)
                  /\ inflight' = Settle(inflight, "stooq")
                  /\ pc' = "done"
  /\ UNCHANGED <<genVars, page, present, listening, stockData, result, attempts,
                 produced, writes, currentRange, events, scrolled, menuOpen,
                 reads>>

\* when the range handler read fullSeries
PatchReadKind ==
  IF pc = "done" THEN "after_accept"
  ELSE IF fullSeries = <<>> THEN "before_empty" ELSE "before_unaccepted"

\* change of rangeSelect: buildOrUpdateCharts
RangeChange ==
  /\ page = "patch"
  /\ listening
  /\ events < MaxEvents
  /\ \E option \in RangeOptions :
       currentRange' = option /\ ChartsBuilt(fullSeries, option)
  /\ reads' = reads \cup {PatchReadKind}
  /\ events' = events + 1
  /\ UNCHANGED <<genVars, page, present, pc, listening, inflight, stockData,
                 result, attempts, produced, writes, display, scrolled,
                 menuOpen>>

\* input of the slider: updateTargetFromMultiple
SliderInput ==
  /\ page = "patch"
  /\ listening
  /\ events < MaxEvents
  /\ \E multiple \in SliderValues :
       display' = [display EXCEPT !["multipleValue"] = multiple,
                                  !["impliedPrice"] = ImpliedPrice(multiple)]
  /\ events' = events + 1
  /\ UNCHANGED <<genVars, fullSeries, page, present, pc, listening, inflight,
                 stockData, result, attempts, produced, writes, currentRange,
                 priceChart, volumeChart, chartSeq, scrolled, menuOpen, reads>>

PatchLoadStep == PatchBoot \/ CsvResponds \/ CsvBody

PatchNext == PatchLoadStep \/ RangeChange \/ SliderInput


\* how many invocations of fetchFallbackData a run makes
MaxCalls == 2

GenIdle ==
  /\ gen = [i |-> 1, current |-> 0, dayCount |-> 0, seed |-> SeedStart, data |-> <<>>]
  /\ genPhase = "idle"
  /\ genCalls = 0
  /\ genFirst = <<>>

\* fetchFallbackData() is called: let seed = 42
GenInvoke ==
  /\ genPhase \in {"idle", "returned"}
  /\ genCalls < MaxCalls
  /\ gen' = GenStart(gen.seed)
  /\ genPhase' = "running"
  /\ genCalls' = genCalls + 1
  /\ UNCHANGED <<pageVars, genFirst>>

\* one iteration of the for loop: the while loop between two anchors, i++
GenLoop ==
  /\ genPhase = "running"
  /\ ~GenFinished(gen)
  /\ gen' = GenNextSegment(RunSegment(gen))
  /\ UNCHANGED <<pageVars, genPhase, genCalls, genFirst>>

\* return data
GenReturn ==
  /\ genPhase = "running"
  /\ GenFinished(gen)
  /\ genPhase' = "returned"
  /\ genFirst' = IF genCalls = 1 THEN gen.data ELSE genFirst
  /\ UNCHANGED <<pageVars, gen, genCalls>>

GenNext == GenInvoke \/ GenLoop \/ GenReturn

\* the page while only the generator is exercised
PageIdle ==
  /\ page = "script"
  /\ present = AllElements
  /\ pc = "boot"
  /\ listening = FALSE
  /\ inflight = {}
  /\ stockData = NullData
  /\ result = NullData
  /\ attempts = <<>>
  /\ produced = <<>>
  /\ writes = <<>>
  /\ display = [s \in TextSlots |-> Nul]
  /\ currentRange = DefaultRange
  /\ priceChart = NoChart
  /\ volumeChart = NoChart
  /\ chartSeq = 0
  /\ events = 0
  /\ scrolled = FALSE
  /\ menuOpen = FALSE
  /\ reads = {}
  /\ fullSeries = <<>>

GenInit == GenIdle /\ PageIdle

SpecGen == GenInit /\ [][GenNext]_vars

Init == (ScriptInit \/ PatchInit) /\ GenIdle

Next == ScriptNext \/ PatchNext

Spec == Init /\ [][Next]_vars

\* where a load can be, and where it has ended
Positions ==
  {"boot", "av_fetch", "av_json", "yh_fetch", "yh_json", "returned", "csv_fetch",
   "csv_text", "done", "crashed", "failed"}
Ended == {"done", "crashed", "failed"}

\* the load leaves the place it is suspended at; the steps of Next that do
\* so are those of LoadStep and PatchLoadStep
LoadAdvances ==
  /\ pc \notin Ended
  /\ pc' \in Positions \ {pc}

\* every network call settles and every continuation runs
FairSpec == Spec /\ WF_pc(LoadAdvances)

\* ------------------------------------------------------------------------
\* Properties
\* ------------------------------------------------------------------------
\* the order fetchStockData tries its sources in
SourceOrder == <<"alphavantage", "yahoo", "synthetic">>

\* an attempt the coordinator did not take: it threw, or its array did not
\* pass data.length > 100
Failed(a) == a.threw \/ ~(a.len > AcceptLimit)

\* fetchStockData has returned
Completed == page = "script" /\ pc \in {"returned", "done"}

StrictlyAscending(bars) ==
  \A k \in 1..(Len(bars) - 1) : bars[k].date < bars[k + 1].date

C2_AlwaysReturns ==
  /\ (pc = "av_fetch") ~> (pc = "returned" /\ ~result.null /\ result.bars # <<>>)
  /\ [](pc = "crashed" => (attempts = <<>> \/ ~result.null))

\* both remote requests were refused and fetchStockData returned
C2_Witness ==
  /\ pc = "returned"
  /\ Len(attempts) = 3
  /\ attempts[1].threw /\ attempts[1].len = 0
  /\ attempts[2].threw /\ attempts[2].len = 0
  /\ result.bars # <<>>

\* C3: at most one data-source request is in flight; the Yahoo request is
\* in flight only after the Alpha Vantage attempt is over, and the generator
\* has run only after the Yahoo attempt is over.
C3_Sequential ==
  /\ Cardinality(inflight) <= 1
  /\ "yahoo" \in inflight =>
       /\ "alphavantage" \notin inflight
       /\ Len(attempts) = 1
       /\ attempts[1].src = "alphavantage"
  /\ (Len(attempts) = 3 /\ page = "script") =>
       /\ inflight = {}
       /\ attempts[2].src = "yahoo"

\* the Yahoo request is in flight, its body being read
C3_Witness ==
  /\ pc = "yh_json"
  /\ inflight = {"yahoo"}
  /\ ~attempts[1].threw

\* C4: STATE.stockData is assigned at most once in a load, and not by a
\* source whose array is then turned down.
C4_WrittenOnce ==
  /\ Len(writes) <= 1
  /\ \A k \in 1..Len(attempts) :
       Failed(attempts[k]) => \A w \in 1..Len(writes) : writes[w] # attempts[k].src

\* C5: when fetchStockData has returned, STATE.stockData is the array it
\* returned.
C5_StoredIsReturned == Completed => stockData = result

\* Alpha Vantage's short array was stored and turned down, then Yahoo's
\* array was returned
C5_Witness ==
  /\ pc = "returned"
  /\ Len(attempts) = 2
  /\ ~attempts[1].threw
  /\ attempts[1].len \in 1..MaxHead
  /\ writes = <<"alphavantage", "yahoo">>

\* C6: the range handler reads the shared series only after the accepted
\* series was stored.
C6_ReadsAfterAccept == reads \subseteq {"after_accept"}

\* C7: a user event starts no request and leaves the stored series, the
\* returned series and the position of the load as they were.
C7_EventsReadOnly ==
  [][events' # events =>
       /\ inflight' = inflight
       /\ stockData' = stockData
       /\ fullSeries' = fullSeries
       /\ result' = result
       /\ attempts' = attempts
       /\ pc' = pc]_vars

\* the 30 day range was selected on the accepted series and the chart shows
\* fewer bars than are stored
C7_Witness ==
  /\ page = "script"
  /\ pc = "done"
  /\ events > 0
  /\ "after_accept" \in reads
  /\ currentRange = 30
  /\ priceChart.range = 30
  /\ priceChart.points # <<>>
  /\ Len(priceChart.points) < Len(stockData.bars)

\* C8: when both remote sources failed, fetchStockData returns the array
\* fetchFallbackData makes, and it has at least one bar.
C8_FallbackIsGenerator ==
  (Completed /\ Len(attempts) = 3) =>
     /\ result.bars = FallbackData
     /\ result.bars # <<>>

\* Alpha Vantage was refused, Yahoo answered with too few bars, and the
\* generator's array was returned
C8_Witness ==
  /\ pc = "returned"
  /\ Len(attempts) = 3
  /\ attempts[1].threw
  /\ ~attempts[2].threw
  /\ Len(result.bars) = Len(FallbackData)

\* C9: every invocation of fetchFallbackData starts from the seed 42 and
\* returns the bars the first invocation returned.
C9_Deterministic ==
  /\ (genPhase = "running" /\ gen.data = <<>> /\ gen.dayCount = 0) =>
       gen.seed = SeedStart
  /\ (genPhase = "returned" /\ genCalls > 1) => gen.data = genFirst

\* a second invocation has returned
C9_Witness ==
  /\ genPhase = "returned"
  /\ genCalls = 2
  /\ genFirst # <<>>
  /\ gen.seed # SeedStart

\* C10: the array a parser makes is strictly ascending by date, so without
\* a date twice.
C10_ParsersSorted ==
  /\ StrictlyAscending(fullSeries)
  /\ StrictlyAscending(produced)

\* a close that is a positive finite number
ValidClose(c) == c # NaN /\ c # Str /\ c # Nul /\ c > 0

\* C11: no accepted series has a bar whose close is zero, negative, not a
\* number or missing.
C11_AcceptedClosesValid ==
  /\ Completed => \A k \in 1..Len(result.bars) : ValidClose(result.bars[k].close)
  /\ (page = "patch" /\ pc = "done") =>
       \A k \in 1..Len(fullSeries) : ValidClose(fullSeries[k].close)

\* C12: an array of fewer bars than the threshold is never accepted, and an
\* array of at least the threshold (100 in fetchStockData, 200 in loadData)
\* is not turned down for its length.
C12_Threshold ==
  /\ Completed => Len(result.bars) >= AcceptLimit
  /\ \A k \in 1..Len(attempts) :
       (~attempts[k].threw /\ attempts[k].len >= AcceptLimit) =>
          /\ k = Len(attempts)
          /\ pc \notin {"yh_fetch", "yh_json"}
  /\ (page = "patch" /\ pc = "done") => Len(fullSeries) >= CsvMinimum
  /\ (page = "patch" /\ pc = "failed") => Len(fullSeries) < CsvMinimum

\* the text slots updateTickerDisplay writes whatever the series is
AlwaysWritten == TextSlots \ {"metric52High", "metric52Low"}

\* C13: a document that lacks display slots (text elements or canvases) is
\* no reason for init to stop: init does not end in an uncaught error, the
\* data load runs, and the slots the document has are written.
C13_MissingSlotHarmless ==
  page = "script" =>
    /\ pc = "crashed" => present = AllElements
    /\ pc = "done" =>
         /\ \A s \in AlwaysWritten \cap present : display[s] # Nul
         /\ "priceChart" \in present => priceChart.id # 0
         /\ "volumeChart" \in present => volumeChart.id # 0

\* C14: once a canvas has a chart instance it keeps that instance: a
\* render after the first updates the instance in place and constructs no
\* new one, for the price chart and for the volume chart.
C14_SameInstance ==
  [][/\ priceChart.id # 0 => priceChart'.id = priceChart.id
     /\ volumeChart.id # 0 => volumeChart'.id = volumeChart.id]_vars

\* a generated bar: low <= min(open, close), max(open, close) <= high, a
\* positive close, a volume at the floor or above, a weekday
WellFormedBar(b) ==
  /\ b.low <= Min2(b.open, b.close)
  /\ Max2(b.open, b.close) <= b.high
  /\ b.close > 0
  /\ b.volume \in Nat /\ b.volume >= VolumeFloor
  /\ GetDay(b.date) \notin {0, 6}

\* C15: every bar the generator has pushed is well formed, and the dates of
\* the bars pushed so far increase strictly, also from one anchor segment to
\* the next.
C15_GeneratedBars ==
  /\ \A k \in 1..Len(gen.data) : WellFormedBar(gen.data[k])
  /\ StrictlyAscending(gen.data)

\* every bar of the series has the close of the first
Flat(series) == \A k \in 1..Len(series) : series[k].close = series[1].close

\* C16: the volatility of a series of identical closes is 0, and loadData
\* never shows a volatility computed from fewer than two returns (which
\* is no number).
C16_FlatVolatility ==
  page = "patch" =>
    /\ display["volatility"] # NaN
    /\ (pc = "done" /\ Flat(fullSeries)) => display["volatility"] = 0

C16_Witness ==
  /\ page = "patch"
  /\ pc = "done"
  /\ Len(fullSeries) >= CsvMinimum
  /\ Flat(fullSeries)
  /\ display["volatility"] = 0

\* the bar LookbackBars bars before the latest one, or the earliest bar of
\* a series that is not longer than that
ReferenceBar(series) == series[Max2(1, Len(series) - LookbackBars)]

\* C17: the period return loadData shows is the percent change from the
\* close exactly 252 bars before the latest bar (the earliest close of a
\* shorter series) to the latest close.
C17_PeriodReturn ==
  (page = "patch" /\ pc = "done") =>
     display["ytdReturn"] =
       Pct(fullSeries[Len(fullSeries)].close, ReferenceBar(fullSeries).close)

\* C18: nothing on the page comes from a series that was not accepted:
\* until a series is accepted the text slots and the charts are empty, and
\* once the load has completed every text slot the document has shows the
\* value of the accepted series, range clicks or not.
C18_OnlyAccepted ==
  /\ (page = "script" /\ result.null) =>
        /\ \A s \in TextSlots : display[s] = Nul
        /\ priceChart.id = 0
        /\ volumeChart.id = 0
  /\ (page = "script" /\ pc = "done") =>
        \A s \in TextSlots \cap present : display[s] = TickerValues(result.bars)[s]
  /\ (page = "patch" /\ pc # "done") =>
        /\ priceChart.points = <<>>
        /\ volumeChart.points = <<>>
        /\ \A s \in {"latestClose", "ytdReturn", "volatility"} : display[s] = Nul

\* C19: a range selected while the load is pending is recorded and nothing
\* is rendered; whenever a price chart is rendered its range is
\* STATE.currentRange, and the render that follows the load uses it.
C19_ChartFollowsRange ==
  page = "script" =>
    /\ result.null => priceChart.id = 0
    /\ priceChart.id # 0 => priceChart.range = currentRange
    /\ pc = "done" => (priceChart.id # 0 /\ priceChart.range = currentRange)

====
